---- MODULE Spec2Model ----
(***************************************************************************)
(* Model of the Sarasota arrest scraper: sarasota_scraper.py (variant      *)
(* "v1": batch driver, retry wrapper, session attempt with control         *)
(* resolution, pagination, extraction, JSON fallback and deduplication)    *)
(* and sarasota_scraper_v2.py (variant "v2": single date, iframe search).  *)
(* The page, the network and the site content are the environment: every   *)
(* query of the page answers nondeterministically.                         *)
(***************************************************************************)
EXTENDS Integers, Sequences, FiniteSets, TLC

(***************************************************************************)
(* Bounds of the model                                                     *)
(***************************************************************************)
MaxDay == 3
MaxPayloads == 2

(***************************************************************************)
(* Program constants                                                       *)
(***************************************************************************)
StopAfterAttemptV1 == 3
StopAfterAttemptV2 == 2

Null == "<None>"
ENTRY_URL == "https://www.sarasotasheriff.org/arrest-reports/index.php"

SELECTOR_HINTS ==
  [ date_inputs |-> << "input[type=date]", "input[name*=date i]",
                       "input[id*=date i]", "input[aria-label*=Date i]" >>,
    search_buttons |-> << "button:has-text(Search)", "button:has-text(Submit)",
                          "button:has-text(Go)", "input[type=submit]",
                          "a:has-text(Search)" >>,
    result_containers |-> << "table", ".results", ".list", ".cards",
                             ".card-list", "[role=table]",
                             "[data-component*=arrest i]" >>,
    next_buttons |-> << "a:has-text(Next)", "button:has-text(Next)",
                        "a[rel=next]", "button:has-text(Load More)",
                        "a:has-text(Load More)" >> ]

QUICK_LINKS == << "Arrests & Inmates", "Arrests & Inmates Search", "Arrest Inquiry" >>

(***************************************************************************)
(* Dates.  A date string is its textual shape and the calendar day it      *)
(* names: "iso" is YYYY-MM-DD, "mdy" is M/D/YYYY, "isoBadCal" has the ISO  *)
(* shape but names no calendar day (2025-13-40), "bad" is any other text.  *)
(***************************************************************************)
DateShapes == {"iso", "mdy", "isoBadCal", "bad"}
NoArg == [shape |-> "none", day |-> 0]
IsoDate(n) == [shape |-> "iso", day |-> n]

\* normalize_date: the ISO shape is returned unchanged (the regular expression
\* does not look at the calendar), M/D/YYYY is re-formatted, else ValueError.
normalize_date(d) ==
  CASE d.shape = "iso"       -> [raised |-> FALSE, val |-> d]
    [] d.shape = "isoBadCal" -> [raised |-> FALSE, val |-> d]
    [] d.shape = "mdy"       -> [raised |-> FALSE, val |-> IsoDate(d.day)]
    [] OTHER                 -> [raised |-> TRUE,  val |-> d]

\* datetime.strptime(x, "%Y-%m-%d")
StrptimeIsoRaises(d) == d.shape # "iso"

RECURSIVE DaysFrom(_, _)
DaysFrom(s, e) == IF s <= e THEN <<IsoDate(s)>> \o DaysFrom(s + 1, e) ELSE <<>>

\* daterange: both ends normalized and parsed, then one day per step while s <= e
daterange(start, end) ==
  LET ns == normalize_date(start)
      ne == normalize_date(end)
  IN IF ns.raised \/ StrptimeIsoRaises(ns.val) \/ ne.raised \/ StrptimeIsoRaises(ne.val)
       THEN [raised |-> TRUE, val |-> <<>>]
       ELSE [raised |-> FALSE, val |-> DaysFrom(ns.val.day, ne.val.day)]

(***************************************************************************)
(* Records                                                                 *)
(***************************************************************************)
\* ArrestRow(...) with the dataclass defaults for the fields not given
ArrestRow(arrest_date, name, dob, age, charges, agency, booking_number, bond) ==
  [ arrest_date |-> arrest_date, name |-> name, dob |-> dob, age |-> age,
    charges |-> charges, agency |-> agency, booking_number |-> booking_number,
    bond |-> bond, arrest_time |-> Null, source_url |-> ENTRY_URL ]

(***************************************************************************)
(* Python truthiness and text helpers                                      *)
(***************************************************************************)
Truthy(x) == x # Null /\ x # ""
\* a or b
PyOr(a, b) == IF Truthy(a) THEN a ELSE b

\* str.lower() on the header and label texts the modelled pages use
Lower(s) ==
  CASE s = "Name"        -> "name"
    [] s = "NAME"        -> "name"
    [] s = "Arrest Date" -> "arrest date"
    [] s = "Date"        -> "date"
    [] s = "Booking #"   -> "booking #"
    [] s = "Booking No"  -> "booking no"
    [] s = "Booking No." -> "booking no."
    [] s = "Age"         -> "age"
    [] s = "Bond"        -> "bond"
    [] s = "Charges"     -> "charges"
    [] s = "Nickname"    -> "nickname"
    [] OTHER             -> s

\* str.strip() on the cell and value texts the modelled pages use
Strip(s) ==
  CASE s = " "           -> ""
    [] s = " Jane Doe "  -> "Jane Doe"
    [] OTHER             -> s

SeqMin(a, b) == IF a <= b THEN a ELSE b
SetMax(S) == CHOOSE x \in S : \A y \in S : y <= x

(***************************************************************************)
(* Table strategy                                                          *)
(***************************************************************************)
\* dict(zip(headers, cells)).get(key): zip stops at the shorter list and a
\* repeated header keeps the last cell
DictGet(headers, cells, key) ==
  LET n == SeqMin(Len(headers), Len(cells))
      hits == {i \in 1..n : headers[i] = key}
  IN IF hits = {} THEN Null ELSE cells[SetMax(hits)]

TableRow(headers, cells) ==
  ArrestRow(PyOr(DictGet(headers, cells, "arrest date"), DictGet(headers, cells, "date")),
            DictGet(headers, cells, "name"),
            PyOr(DictGet(headers, cells, "dob"), DictGet(headers, cells, "date of birth")),
            DictGet(headers, cells, "age"),
            PyOr(DictGet(headers, cells, "charges"), DictGet(headers, cells, "charge")),
            PyOr(DictGet(headers, cells, "agency"), DictGet(headers, cells, "arresting agency")),
            PyOr(DictGet(headers, cells, "booking #"), DictGet(headers, cells, "booking number")),
            DictGet(headers, cells, "bond"))

\* variant of the headers: read without lower()
extract_rows_from_table_as_written(table_el) ==
  LET headers == [i \in 1..Len(table_el.headers) |-> Strip(table_el.headers[i])]
  IN [r \in 1..Len(table_el.body) |->
        TableRow(headers, [c \in 1..Len(table_el.body[r]) |-> Strip(table_el.body[r][c])])]

extract_rows_from_table(table_el) ==
  LET headers == [i \in 1..Len(table_el.headers) |-> Lower(Strip(table_el.headers[i]))]
  IN [r \in 1..Len(table_el.body) |->
        TableRow(headers, [c \in 1..Len(table_el.body[r]) |-> Strip(table_el.body[r][c])])]

(***************************************************************************)
(* Card strategy.  An item text is a sequence of lines "label: value".  A  *)
(* pattern "Label:\s*(class+)" matches a line whose label ends with Label  *)
(* (case-insensitive) and whose value starts with a character of the       *)
(* class; it captures the longest prefix of the value within the class.    *)
(***************************************************************************)
\* lower-cased labels that end with the pattern's label text
LabelsEnding(pat) ==
  CASE pat = "name"        -> {"name", "nickname"}
    [] pat = "arrest date" -> {"arrest date"}
    [] pat = "dob"         -> {"dob", "date of birth"}
    [] pat = "age"         -> {"age"}
    [] pat = "booking"     -> {"booking no.", "booking #", "booking number"}
    [] pat = "agency"      -> {"agency", "arresting agency"}
    [] pat = "bond"        -> {"bond"}
    [] pat = "charges"     -> {"charge", "charges"}

\* the capture of \s*(class+) on a value, Null when the class matches nothing
Capture(cls, v) ==
  CASE cls = "any"      -> IF v = "" THEN Null ELSE v
    [] cls = "datetime" -> (CASE v = "01/02/2025" -> v [] v = "34" -> v
                              [] v = "unknown" -> " " [] OTHER -> Null)
    [] cls = "date"     -> (CASE v = "01/02/2025" -> v [] v = "34" -> v [] OTHER -> Null)
    [] cls = "digits3"  -> (CASE v = "34" -> v [] v = "01/02/2025" -> "01" [] OTHER -> Null)
    [] cls = "alnum"    -> (CASE v = "A987" -> v [] v = "34" -> v [] v = "John Smith" -> "John"
                              [] v = "01/02/2025" -> "01" [] v = "unknown" -> v
                              [] OTHER -> Null)

\* re.search(pattern, text, re.I): the capture of the leftmost matching line
RECURSIVE Search(_, _, _, _)
Search(text, i, pat, cls) ==
  IF i > Len(text) THEN Null
  ELSE IF Lower(text[i].label) \in LabelsEnding(pat) /\ Capture(cls, text[i].value) # Null
         THEN Strip(Capture(cls, text[i].value))
         ELSE Search(text, i + 1, pat, cls)

CardRow(text) ==
  ArrestRow(Search(text, 1, "arrest date", "datetime"),
            Search(text, 1, "name", "any"),
            Search(text, 1, "dob", "date"),
            Search(text, 1, "age", "digits3"),
            Search(text, 1, "charges", "any"),
            Search(text, 1, "agency", "any"),
            Search(text, 1, "booking", "alnum"),
            Search(text, 1, "bond", "any"))

extract_rows_from_cards(container) ==
  [i \in 1..Len(container.items) |-> CardRow(container.items[i])]

(***************************************************************************)
(* try_extract_rows over a page snapshot.  A page answers, for each result *)
(* container candidate, with a count that may raise and the matched        *)
(* elements; an element is a table (headers, body rows) or a container of  *)
(* items, and its inspection may raise: "eval" when el.evaluate raises,    *)
(* "PWTimeoutError" or "Error" when reading its text raises.               *)
(***************************************************************************)
\* reading the element's text raises (it has text to read)
ReadRaises(el) ==
  /\ el.raises \in {"PWTimeoutError", "Error"}
  /\ IF el.is_table THEN Len(el.headers) + Len(el.body) > 0 ELSE Len(el.items) > 0

\* the body of the try block for one element: "return" with rows, or fall
\* through to the next element (nothing returned, or the exception caught)
InspectElement(el) ==
  IF el.raises = "eval" THEN [returns |-> FALSE, rows |-> <<>>]
  ELSE IF el.is_table
    THEN IF Len(el.body) > 0 /\ ~ReadRaises(el)
           THEN [returns |-> TRUE, rows |-> extract_rows_from_table(el)]
           ELSE [returns |-> FALSE, rows |-> <<>>]
    ELSE IF ~ReadRaises(el) /\ extract_rows_from_cards(el) # <<>>
           THEN [returns |-> TRUE, rows |-> extract_rows_from_cards(el)]
           ELSE [returns |-> FALSE, rows |-> <<>>]

\* variant of the last resort: no table is parsed after the candidates
LastResortNone(page) ==
  IF page.last_count_raises # "no" THEN [raised |-> page.last_count_raises, rows |-> <<>>]
  ELSE [raised |-> "no", rows |-> <<>>]

\* "Last resort: parse any table on page"
LastResort(page) ==
  IF page.last_count_raises # "no" THEN [raised |-> page.last_count_raises, rows |-> <<>>]
  ELSE IF Len(page.cands[1].els) > 0
    THEN LET t == page.cands[1].els[1]
         IN IF ReadRaises(t) THEN [raised |-> t.raises, rows |-> <<>>]
            ELSE [raised |-> "no", rows |-> extract_rows_from_table(t)]
    ELSE [raised |-> "no", rows |-> <<>>]

\* variant of the scan: an element that returns nothing ends its candidate
RECURSIVE ScanContainersFirstOnly(_, _, _)
ScanContainersFirstOnly(page, ci, ei) ==
  IF ci > Len(SELECTOR_HINTS.result_containers) THEN LastResort(page)
  ELSE IF ei = 1 /\ page.cands[ci].count_raises # "no"
    THEN [raised |-> page.cands[ci].count_raises, rows |-> <<>>]
  ELSE IF ei > Len(page.cands[ci].els) THEN ScanContainersFirstOnly(page, ci + 1, 1)
  ELSE LET r == InspectElement(page.cands[ci].els[ei])
       IN IF r.returns THEN [raised |-> "no", rows |-> r.rows]
          ELSE ScanContainersFirstOnly(page, ci + 1, 1)

\* the loop over the candidates and the elements of each, from element ei of
\* candidate ci on
RECURSIVE ScanContainers(_, _, _)
ScanContainers(page, ci, ei) ==
  IF ci > Len(SELECTOR_HINTS.result_containers) THEN LastResort(page)
  ELSE IF ei = 1 /\ page.cands[ci].count_raises # "no"
    THEN [raised |-> page.cands[ci].count_raises, rows |-> <<>>]
  ELSE IF ei > Len(page.cands[ci].els) THEN ScanContainers(page, ci + 1, 1)
  ELSE LET r == InspectElement(page.cands[ci].els[ei])
       IN IF r.returns THEN [raised |-> "no", rows |-> r.rows]
          ELSE ScanContainers(page, ci, ei + 1)

try_extract_rows(page) == ScanContainers(page, 1, 1)

(***************************************************************************)
(* Intercepted JSON.  A payload is a dict with a "results" list, a dict    *)
(* whose "results" is null, a dict without "results", a list, or a scalar. *)
(* An item is an object (a function on JsonKeys, Null where the key is     *)
(* absent or null) or not an object.                                       *)
(***************************************************************************)
JsonKeys == {"arrest_date", "arrestDate", "date", "name", "last_name", "first_name",
             "dob", "date_of_birth", "age", "charges", "charge_summary", "charge",
             "agency", "arresting_agency", "booking_number", "bookingNo", "booking",
             "bond"}

\* it.get(k), and it.get(k, '') for the name parts
Get(it, k) == it.f[k]
GetOrEmpty(it, k) == IF it.f[k] = Null THEN "" ELSE it.f[k]

\* norm(v): None stays None, anything else is str(v).strip()
norm(v) == IF v = Null THEN Null ELSE Strip(v)

JsonRow(it) ==
  ArrestRow(norm(PyOr(PyOr(Get(it, "arrest_date"), Get(it, "arrestDate")), Get(it, "date"))),
            norm(PyOr(Get(it, "name"),
                      Strip(GetOrEmpty(it, "last_name") \o " " \o GetOrEmpty(it, "first_name")))),
            norm(PyOr(Get(it, "dob"), Get(it, "date_of_birth"))),
            norm(Get(it, "age")),
            norm(PyOr(PyOr(Get(it, "charges"), Get(it, "charge_summary")), Get(it, "charge"))),
            norm(PyOr(Get(it, "agency"), Get(it, "arresting_agency"))),
            norm(PyOr(PyOr(Get(it, "booking_number"), Get(it, "bookingNo")), Get(it, "booking"))),
            norm(Get(it, "bond")))

\* the items the fallback iterates over
PayloadItems(payload) ==
  CASE payload.kind = "dict_results" -> payload.items
    [] payload.kind = "list"         -> payload.items
    [] OTHER                         -> <<>>

\* the JSON fallback on json_payloads[-1]["data"]: iterating a null "results"
\* raises TypeError, it.get on a non-object raises AttributeError
JsonFallback(payload) ==
  LET items == PayloadItems(payload)
  IN IF payload.kind = "dict_results_null" THEN [raised |-> "TypeError", rows |-> <<>>]
     ELSE IF \E i \in 1..Len(items) : ~items[i].is_obj
       THEN [raised |-> "AttributeError", rows |-> <<>>]
       ELSE [raised |-> "no", rows |-> [i \in 1..Len(items) |-> JsonRow(items[i])]]

\* handle_response: a response is buffered when its content type contains
\* application/json, its URL matches the keyword pattern and its body parses
CtypeIsJson(ctype) == ctype \in {"application/json", "Application/JSON; charset=utf-8"}
UrlMatches(url) == url \in {"/api/arrests?d=1", "/Inmate/count", "/booking/search"}
handle_response(buf, resp) ==
  IF CtypeIsJson(resp.ctype) /\ UrlMatches(resp.url) /\ ~resp.json_raises
    THEN Append(buf, [url |-> resp.url, data |-> resp.data])
    ELSE buf

(***************************************************************************)
(* Deduplication                                                           *)
(***************************************************************************)
Key(r) == << r.name, r.arrest_date, r.booking_number, r.charges >>

\* variant of the loop: a repeated key replaces nothing but is kept as well
\* when its bond differs
RECURSIVE DedupLoopBondInKey(_, _, _, _)
DedupLoopBondInKey(rs, i, seen, out) ==
  IF i > Len(rs) THEN out
  ELSE IF << Key(rs[i]), rs[i].bond >> \in seen THEN DedupLoopBondInKey(rs, i + 1, seen, out)
  ELSE DedupLoopBondInKey(rs, i + 1, seen \cup {<< Key(rs[i]), rs[i].bond >>}, Append(out, rs[i]))

RECURSIVE DedupLoop(_, _, _, _)
DedupLoop(rs, i, seen, out) ==
  IF i > Len(rs) THEN out
  ELSE IF Key(rs[i]) \in seen THEN DedupLoop(rs, i + 1, seen, out)
  ELSE DedupLoop(rs, i + 1, seen \cup {Key(rs[i])}, Append(out, rs[i]))

Dedupe(rs) == DedupLoop(rs, 1, {}, <<>>)

(***************************************************************************)
(* The site: the pages, responses and command lines the runs are checked   *)
(* against                                                                 *)
(***************************************************************************)
Line(label, value) == [label |-> label, value |-> value]
Table(headers, body, raises) ==
  [is_table |-> TRUE, raises |-> raises, headers |-> headers, body |-> body, items |-> <<>>]
Cards(items, raises) ==
  [is_table |-> FALSE, raises |-> raises, headers |-> <<>>, body |-> <<>>, items |-> items]

JaneHeaders == << "Name", "Arrest Date", "Booking #" >>
JaneCells == << "Jane Doe", "01/02/2025", "B12345" >>
BondHeaders == << "NAME", "Bond" >>
JohnText == << Line("Name", "John Smith"), Line("Age", "34"), Line("Booking No", "A987") >>
JohnDotText == << Line("Name", "John Smith"), Line("Booking No.", "A987"), Line("Bond", "$500") >>

Cand(els) == [count_raises |-> "no", els |-> els]
CandRaising(kind) == [count_raises |-> kind, els |-> <<>>]
\* a page with the given tables (candidate "table") and ".results" answer
Page(tables, results, last) ==
  [ cands |-> << Cand(tables), results, Cand(<<>>), Cand(<<>>), Cand(<<>>),
                 Cand(<<>>), Cand(<<>>) >>,
    last_count_raises |-> last ]

PagePool ==
  { Page(<<>>, Cand(<<>>), "no"),
    Page(<< Table(JaneHeaders, <<JaneCells>>, "no") >>, Cand(<<>>), "no"),
    Page(<< Table(BondHeaders, << <<" Jane Doe ", "$500">>, <<"Jane Doe", "$900">>,
                                  <<"John Smith", "$500">> >>, "no") >>, Cand(<<>>), "no"),
    Page(<< Table(BondHeaders, << <<"John Smith", "$900">>, <<"Jane Doe", "$900">>,
                                  <<"John Smith", "$500">> >>, "no") >>, Cand(<<>>), "no"),
    Page(<< Table(<<>>, << <<"Jane Doe">> >>, "no") >>, Cand(<<>>), "no"),
    Page(<< Table(JaneHeaders, << <<"Jane Doe">>, <<>> >>, "no") >>, Cand(<<>>), "no"),
    Page(<< Table(<< "Arrest Date", "Date", "Name" >>, << << "", "01/02/2025", "" >> >>, "no") >>,
         Cand(<<>>), "no"),
    Page(<< Table(JaneHeaders, <<>>, "no") >>, Cand(<< Cards(<<JohnText, JohnDotText>>, "no") >>), "no"),
    Page(<<>>, Cand(<< Cards(<<>>, "no"), Cards(<< <<Line("", "free text")>> >>, "no") >>), "no"),
    Page(<< Table(JaneHeaders, <<JaneCells>>, "eval") >>, Cand(<<>>), "no"),
    Page(<< Table(JaneHeaders, <<JaneCells>>, "PWTimeoutError") >>, Cand(<<>>), "no"),
    Page(<< Table(JaneHeaders, <<>>, "no") >>, Cand(<< Cards(<<JohnText>>, "Error") >>), "no"),
    Page(<< Table(JaneHeaders, <<JaneCells>>, "Error"),
            Table(BondHeaders, << <<"John Smith", "$500">> >>, "no") >>,
         CandRaising("Error"), "PWTimeoutError"),
    Page(<<>>, CandRaising("Error"), "no"),
    Page(<<>>, Cand(<<>>), "PWTimeoutError") }

Obj(g) == [is_obj |-> TRUE, f |-> [k \in JsonKeys |-> IF k \in DOMAIN g THEN g[k] ELSE Null]]
NotAnObject == [is_obj |-> FALSE, f |-> [k \in JsonKeys |-> Null]]
Payload(kind, items) == [kind |-> kind, items |-> items]
Response(ctype, url, json_raises, data) ==
  [ctype |-> ctype, url |-> url, json_raises |-> json_raises, data |-> data]

JohnJson == Obj([name |-> "John Smith", arrestDate |-> "01/02/2025", bookingNo |-> "A987",
                 bond |-> "$500"])
JaneJson == Obj([last_name |-> "Doe", first_name |-> "Jane", booking |-> "B12345"])

ResponsePool ==
  { Response("application/json", "/api/arrests?d=1", FALSE,
             Payload("dict_results", << JohnJson, JaneJson, Obj([bond |-> " "]) >>)),
    Response("application/json", "/Inmate/count", FALSE, Payload("dict", <<>>)),
    Response("Application/JSON; charset=utf-8", "/booking/search", FALSE,
             Payload("list", <<JohnJson, NotAnObject>>)),
    Response("application/json", "/booking/search", FALSE, Payload("dict_results_null", <<>>)),
    Response("text/html", "/api/arrests?d=1", FALSE, Payload("scalar", <<>>)),
    Response("application/json", "/analytics", FALSE, Payload("dict_results", <<JohnJson>>)),
    Response("application/json", "/booking/search", TRUE, Payload("scalar", <<>>)) }

\* the pages and responses the runs over a date range are checked against
RangePagePool ==
  { Page(<<>>, Cand(<<>>), "no"),
    Page(<< Table(JaneHeaders, <<JaneCells>>, "no") >>, Cand(<<>>), "no"),
    Page(<< Table(JaneHeaders, <<JaneCells>>, "PWTimeoutError") >>, Cand(<<>>), "no") }

RangeResponsePool ==
  { Response("application/json", "/api/arrests?d=1", FALSE,
             Payload("list", << JohnJson, JaneJson >>)),
    Response("text/html", "/api/arrests?d=1", FALSE, Payload("scalar", <<>>)) }

IsoDays == {IsoDate(n) : n \in 1..MaxDay}
SingleDates == {[shape |-> s, day |-> 1] : s \in DateShapes}
Args(date, start, end) == [date |-> date, start |-> start, end |-> end]
\* command lines of sarasota_scraper.py: --date, or --start and --end
ArgsV1 ==
  {Args(d, NoArg, NoArg) : d \in SingleDates}
    \cup {Args(NoArg, s, e) : s \in IsoDays \cup {[shape |-> "bad", day |-> 1]},
                              e \in IsoDays \cup {[shape |-> "mdy", day |-> 1]}}
    \cup {Args(NoArg, NoArg, NoArg), Args(NoArg, IsoDate(1), NoArg)}
\* command lines of sarasota_scraper_v2.py: an optional --date
ArgsV2 == {Args(d, NoArg, NoArg) : d \in SingleDates \cup {NoArg}}

\* an answer of the page to one operation
OpFail == {"PWTimeoutError", "Error"}

(***************************************************************************)
(* State                                                                   *)
(***************************************************************************)
VARIABLES
  variant,        \* which script runs: "v1" sarasota_scraper.py, "v2" sarasota_scraper_v2.py
  args,           \* the parsed command line
  mpc,            \* position of main
  dates,          \* main: the list of dates
  di,             \* main: index of the date of the current loop iteration
  all_records,    \* main: the aggregate (results in v2)
  spc,            \* position of scrape_for_date and of its retry wrapper
  attempts,       \* retry wrapper: attempt number of the current call
  idx,            \* index of the candidate the current loop is at
  registered,     \* handle_response is subscribed on the context
  json_payloads,  \* the buffer handle_response appends to
  bufferedAt,     \* history: the date index and the attempt each payload was buffered in
  date_val,       \* scrape_for_date: the normalized date
  ok,             \* scrape_for_date: the date input was filled
  clicked,        \* scrape_for_date: click_search dispatched an action
  rows,           \* scrape_for_date: the extracted rows (the return value at the end)
  dom_rows,       \* history: what try_extract_rows returned in this attempt
  last_page,      \* history: the page try_extract_rows was called on in this attempt
  exc,            \* the exception in flight, "none" when there is none
  excAt,          \* history: the function the exception in flight left
  swallowed,      \* history: the timeout-class error the last step caught, "no" if none
  outcomes,       \* history: how each attempt of the current call ended
  browserUsed,    \* history: the current call launched a browser
  pagSeen,        \* history: what the last step of paginate saw and did, and its round so far
  dispatched,     \* history: the actions the running click_search call has sent
  extracts,       \* history: calls of try_extract_rows in this attempt (saturates at 2)
  bufStale,       \* history: the last buffered payload came before the latest paginate click
  missed,         \* history: a matching response came in this attempt with no observer on
  perDate,        \* history: what each finished call gave main
  opts,           \* main: args.output is given, args.no_upload is set
  file,           \* the output file: whether main wrote it, and the records dumped
  sheet,          \* the worksheet: whether the upload touched it, and its rows
  mainExc         \* history: the exception that ended main, "none" if none

vars == << variant, args, mpc, dates, di, all_records, spc, attempts, idx, registered,
           json_payloads, bufferedAt, date_val, ok, clicked, rows, dom_rows, last_page, exc,
           excAt, swallowed,
           outcomes, browserUsed, pagSeen, dispatched, extracts, bufStale,
          missed, perDate, opts, file, sheet, mainExc >>

tailVars == << opts, file, sheet >>
mainVars == << variant, args, mpc, dates, di, all_records, perDate, tailVars, mainExc >>
localVars == << registered, json_payloads, bufferedAt, date_val, ok, clicked, rows, dom_rows,
                last_page >>
histVars ==
  << outcomes, browserUsed, pagSeen, dispatched, extracts, bufStale, missed >>

\* no page: try_extract_rows was not called
NoPage == [cands |-> <<>>, last_count_raises |-> "no"]
NoSeen == [ready |-> FALSE, state |-> "none", click |-> "none", done |-> 0]

\* main before it reads its options, the output file before it is written,
\* the worksheet before the upload
NoOpts == [output |-> FALSE, no_upload |-> FALSE]
NoFile == [written |-> FALSE, data |-> <<>>]
NoSheet == [touched |-> FALSE, rows |-> <<>>]

\* what the site serves during the run
Pages == IF args.date # NoArg THEN PagePool ELSE RangePagePool
Responses == IF args.date # NoArg THEN ResponsePool ELSE RangeResponsePool

StopAfterAttempt == IF variant = "v1" THEN StopAfterAttemptV1 ELSE StopAfterAttemptV2

Init ==
  /\ variant \in {"v1", "v2"}
  /\ args \in (IF variant = "v1" THEN ArgsV1 ELSE ArgsV2)
  /\ mpc = "parse"
  /\ dates = <<>>
  /\ di = 0
  /\ all_records = <<>>
  /\ spc = "idle"
  /\ attempts = 0
  /\ idx = 0
  /\ registered = FALSE
  /\ json_payloads = <<>>
  /\ bufferedAt = <<>>
  /\ date_val = NoArg
  /\ ok = FALSE
  /\ clicked = FALSE
  /\ rows = <<>>
  /\ dom_rows = <<>>
  /\ last_page = NoPage
  /\ exc = "none"
  /\ excAt = "none"
  /\ swallowed = "no"
  /\ outcomes = <<>>
  /\ browserUsed = FALSE
  /\ pagSeen = NoSeen
  /\ dispatched = <<>>
  /\ extracts = 0
  /\ bufStale = FALSE
  /\ missed = FALSE
  /\ perDate = <<>>
  /\ opts = NoOpts
  /\ file = NoFile
  /\ sheet = NoSheet
  /\ mainExc = "none"

(***************************************************************************)
(* main (sarasota_scraper.py) and main (sarasota_scraper_v2.py)            *)
(***************************************************************************)
\* the date of the current call
date_str == dates[di]

\* argument check and the list of dates
MainParse ==
  /\ mpc = "parse"
  /\ IF variant = "v2"
       THEN \* "Default to yesterday if no date provided"
            /\ dates' = << IF args.date = NoArg THEN IsoDate(1) ELSE args.date >>
            /\ mpc' = "loop"
            /\ di' = 1
       ELSE IF args.date = NoArg /\ ~(args.start # NoArg /\ args.end # NoArg)
         THEN mpc' = "usage_error" /\ UNCHANGED << dates, di >>
       ELSE IF args.date # NoArg
         THEN dates' = << args.date >> /\ mpc' = "loop" /\ di' = 1
       ELSE IF daterange(args.start, args.end).raised
         THEN mpc' = "crashed" /\ mainExc' = "ValueError" /\ UNCHANGED << dates, di >>
       ELSE dates' = daterange(args.start, args.end).val /\ mpc' = "loop" /\ di' = 1
  /\ mpc' # "crashed" => mainExc' = mainExc
  /\ UNCHANGED << variant, args, all_records, perDate, tailVars, spc, attempts, idx,
                  localVars, exc, excAt, swallowed, histVars >>

\* recs = scrape_for_date(d, ...): the first attempt of the retry wrapper starts
MainCall ==
  /\ mpc = "loop"
  /\ di <= Len(dates)
  /\ mpc' = "in_call"
  /\ spc' = "start"
  /\ attempts' = 1
  /\ outcomes' = <<>>
  /\ browserUsed' = FALSE
  /\ UNCHANGED << variant, args, dates, di, all_records, perDate, tailVars, mainExc, idx,
                  localVars, exc, excAt, swallowed, pagSeen, dispatched,
                  extracts, bufStale, missed >>

\* variant of the extend: the records of a date go in front of the aggregate
MainReceivePrepends ==
  /\ mpc = "in_call"
  /\ spc = "returned"
  /\ all_records' = rows \o all_records
  /\ perDate' = Append(perDate, [date |-> date_str, failed |-> FALSE, error |-> "none",
                               recs |-> rows])
  /\ di' = di + 1
  /\ mpc' = "loop"
  /\ spc' = "idle"
  /\ rows' = <<>>
  /\ dom_rows' = <<>>
  /\ last_page' = NoPage
  /\ UNCHANGED << variant, args, dates, tailVars, mainExc, attempts, idx, registered,
                  json_payloads, bufferedAt, date_val, ok, clicked, exc, excAt, swallowed,
                  histVars >>

\* all_records.extend(recs) and the next date
MainReceive ==
  /\ mpc = "in_call"
  /\ spc = "returned"
  /\ all_records' = all_records \o rows
  /\ perDate' = Append(perDate, [date |-> date_str, failed |-> FALSE, error |-> "none",
                               recs |-> rows])
  /\ di' = di + 1
  /\ mpc' = "loop"
  /\ spc' = "idle"
  /\ rows' = <<>>
  /\ dom_rows' = <<>>
  /\ last_page' = NoPage
  /\ UNCHANGED << variant, args, dates, tailVars, mainExc, attempts, idx, registered,
                  json_payloads, bufferedAt, date_val, ok, clicked, exc, excAt, swallowed,
                  histVars >>

\* variant of the handler: the first failing date ends the loop
MainExceptAborts ==
  /\ mpc = "in_call"
  /\ spc = "raised"
  /\ perDate' = Append(perDate, [date |-> date_str, failed |-> TRUE, error |-> exc,
                               recs |-> <<>>])
  /\ IF variant = "v1" THEN mpc' = "loop" /\ di' = Len(dates) + 1 /\ mainExc' = mainExc
                       ELSE mpc' = "exit1" /\ di' = di /\ mainExc' = exc
  /\ spc' = "idle"
  /\ exc' = "none"
  /\ excAt' = "none"
  /\ UNCHANGED << variant, args, dates, all_records, tailVars, attempts, idx, localVars,
                  swallowed, histVars >>

\* v1: "except Exception as e" prints the error and goes on with the next
\* date; v2: the handler around the whole run prints and returns 1
MainExcept ==
  /\ mpc = "in_call"
  /\ spc = "raised"
  /\ perDate' = Append(perDate, [date |-> date_str, failed |-> TRUE, error |-> exc,
                               recs |-> <<>>])
  /\ IF variant = "v1" THEN mpc' = "loop" /\ di' = di + 1 /\ mainExc' = mainExc
                       ELSE mpc' = "exit1" /\ di' = di /\ mainExc' = exc
  /\ spc' = "idle"
  /\ exc' = "none"
  /\ excAt' = "none"
  /\ UNCHANGED << variant, args, dates, all_records, tailVars, attempts, idx, localVars,
                  swallowed, histVars >>

\* the loop over the dates is over: "Total records scraped".  args.output and
\* args.no_upload are read from here on only, and are drawn here.
MainLoopDone ==
  /\ mpc = "loop"
  /\ di > Len(dates)
  /\ mpc' = "total"
  /\ opts' \in [output : BOOLEAN, no_upload : BOOLEAN]
  /\ UNCHANGED << variant, args, dates, di, all_records, perDate, file, sheet, mainExc, spc,
                  attempts, idx, localVars, exc, excAt, swallowed, histVars >>

\* an exception leaves the statements after the loop: nothing catches it in
\* sarasota_scraper.py; in sarasota_scraper_v2.py "except Exception as e"
\* around the run prints "Scraper failed" and returns 1
MainRaise(kind) ==
  /\ mpc' = (IF variant = "v1" THEN "crashed" ELSE "exit1")
  /\ mainExc' = kind

\* variant of the dump: main goes on to the upload with the file unwritten
MainOutputUnwritten ==
  /\ mpc = "total"
  /\ mpc' = "upload"
  /\ UNCHANGED << file, mainExc >>
  /\ UNCHANGED << variant, args, dates, di, all_records, perDate, opts, sheet, spc, attempts,
                  idx, localVars, exc, excAt, swallowed, histVars >>

\* "if args.output": open the file and json.dump the aggregate
MainOutput ==
  /\ mpc = "total"
  /\ \/ /\ ~opts.output
        /\ mpc' = "upload"
        /\ UNCHANGED << file, mainExc >>
     \/ /\ opts.output
        /\ mpc' = "upload"
        /\ file' = [written |-> TRUE, data |-> all_records]
        /\ UNCHANGED mainExc
     \/ \* open() raises: the file is not written
        /\ opts.output
        /\ MainRaise("OSError")
        /\ UNCHANGED file
  /\ UNCHANGED << variant, args, dates, di, all_records, perDate, opts, sheet, spc, attempts,
                  idx, localVars, exc, excAt, swallowed, histVars >>

\* df.columns of the records of each script, and a record as a row of the sheet
Columns ==
  IF variant = "v1"
    THEN << "arrest_date", "name", "dob", "age", "booking_number", "agency", "bond",
            "arrest_time", "charges", "source_url" >>
    ELSE << "arrest_date", "raw_text", "scraped_at" >>
Values(records) ==
  [i \in 1..Len(records) |-> [c \in 1..Len(Columns) |-> records[i][Columns[c]]]]

\* rows a worksheet holds before the upload
ExistingRows == << << "arrest_date", "raw_text", "scraped_at" >>,
                  << "2024-12-31", "Roe, Richard 12/31/2024", "<then>" >> >>

\* "if not args.no_upload and all_records": upload_to_google_sheets
\* (sarasota_scraper.py) clears the worksheet and writes the header and the
\* rows; upload_to_sheets (sarasota_scraper_v2.py) appends the rows to a
\* worksheet that has records and writes header and rows to one that has
\* none.  "except Exception as e" of both prints the error and raises it
\* again.  Then "completed successfully".
MainUpload ==
  /\ mpc = "upload"
  /\ IF ~opts.no_upload /\ all_records # <<>>
       THEN \/ \* the upload succeeds
               /\ mpc' = "done"
               /\ IF variant = "v1"
                    THEN sheet' = [touched |-> TRUE,
                                   rows |-> << Columns >> \o Values(all_records)]
                    ELSE \E existing \in {<<>>, ExistingRows} :
                           sheet' = [touched |-> TRUE,
                                     rows |-> IF existing # <<>>
                                                THEN existing \o Values(all_records)
                                                ELSE << Columns >> \o Values(all_records)]
               /\ UNCHANGED mainExc
            \/ \* a call before the first write raises
               /\ MainRaise("SinkError")
               /\ UNCHANGED sheet
            \/ \* wks.update raises after wks.clear()
               /\ variant = "v1"
               /\ MainRaise("SinkError")
               /\ sheet' = [touched |-> TRUE, rows |-> <<>>]
       ELSE mpc' = "done" /\ UNCHANGED << sheet, mainExc >>
  /\ UNCHANGED << variant, args, dates, di, all_records, perDate, opts, file, spc, attempts,
                  idx, localVars, exc, excAt, swallowed, histVars >>

(***************************************************************************)
(* The retry wrapper of scrape_for_date                                    *)
(***************************************************************************)
\* the locals of an invocation that ends.  The list json_payloads was bound
\* to is no longer reachable: nothing appends to it and nothing reads it, and
\* the next invocation binds the name anew.
DropLocals ==
  /\ registered' = FALSE
  /\ UNCHANGED << json_payloads, bufferedAt >>
  /\ date_val' = NoArg
  /\ ok' = FALSE
  /\ clicked' = FALSE
  /\ idx' = 0

\* an exception of the given kind leaves scrape_for_date from function at,
\* try_extract_rows having been called on page (NoPage: not called)
RaiseSeen(kind, at, page) ==
  /\ spc' = "raising"
  /\ exc' = kind
  /\ excAt' = at
  /\ swallowed' = "no"
  /\ rows' = <<>>
  /\ dom_rows' = <<>>
  /\ last_page' = page
  /\ DropLocals

Raise(kind, at) == RaiseSeen(kind, at, NoPage)

\* variants of the retry conditions: every playwright error retried, nothing
\* retried, one attempt less, one attempt more
ShouldRetryAnyError(e) == e \in {"PWTimeoutError", "Error"}
ShouldRetryNothing(e) == FALSE
ShouldStopEarly(n) == n >= StopAfterAttempt - 1
ShouldStopLate(n) == n > StopAfterAttempt

\* retry=retry_if_exception_type(PWTimeoutError)
ShouldRetry(e) == e = "PWTimeoutError"
\* stop=stop_after_attempt(n)
ShouldStop(n) == n >= StopAfterAttempt

\* the attempt failed with a retried exception and attempts remain: wait, call again
RetryAgain ==
  /\ spc = "raising"
  /\ ShouldRetry(exc) /\ ~ShouldStop(attempts)
  /\ attempts' = attempts + 1
  /\ outcomes' = Append(outcomes, exc)
  /\ spc' = "start"
  /\ exc' = "none"
  /\ excAt' = "none"
  /\ last_page' = NoPage
  /\ UNCHANGED << mainVars, idx, registered, json_payloads, bufferedAt, date_val, ok, clicked,
                  rows, dom_rows, swallowed, browserUsed, pagSeen, dispatched,
                  extracts, bufStale, missed >>

\* reraise=True: the exception goes to the caller
Reraise ==
  /\ spc = "raising"
  /\ ~ShouldRetry(exc) \/ ShouldStop(attempts)
  /\ outcomes' = Append(outcomes, exc)
  /\ spc' = "raised"
  /\ last_page' = NoPage
  /\ UNCHANGED << mainVars, attempts, idx, registered, json_payloads, bufferedAt, date_val,
                  ok, clicked, rows, dom_rows, exc, excAt, swallowed, browserUsed,
                  pagSeen, dispatched,
                  extracts, bufStale, missed >>

(***************************************************************************)
(* One attempt of scrape_for_date (sarasota_scraper.py)                    *)
(***************************************************************************)
\* the attempt goes on at position next, candidate i, having caught sw
Go(next, i, sw) ==
  /\ spc' = next
  /\ idx' = i
  /\ swallowed' = (IF sw = "PWTimeoutError" THEN sw ELSE "no")
  /\ UNCHANGED << exc, excAt >>

Answers == {"ok"} \cup OpFail
NumCandidates(role) == Len(SELECTOR_HINTS[role])

\* sync_playwright(), chromium.launch, new_context, new_page
Launch ==
  /\ spc = "start"
  /\ browserUsed' = TRUE
  /\ pagSeen' = NoSeen
  /\ dispatched' = <<>>
  /\ extracts' = 0
  /\ missed' = FALSE
  /\ \E o \in Answers :
       IF o = "ok"
         THEN Go(IF variant = "v1" THEN "goto" ELSE "v2_goto", 0, "no") /\ UNCHANGED localVars
         ELSE Raise(o, "scrape_for_date")
  /\ UNCHANGED << mainVars, attempts, outcomes, bufStale >>

\* page.goto(ENTRY_URL, wait_until="domcontentloaded", timeout=30000)
Goto ==
  /\ spc = "goto"
  /\ \E o \in Answers :
       IF o = "ok" THEN Go("load_wait", 0, "no") /\ UNCHANGED localVars
                   ELSE Raise(o, "scrape_for_date")
  /\ UNCHANGED << mainVars, attempts, histVars >>

\* page.wait_for_load_state("networkidle", timeout=30000)
LoadWait ==
  /\ spc = "load_wait"
  /\ \E o \in Answers :
       IF o = "ok" THEN Go("quick_link", 1, "no") /\ UNCHANGED localVars
                   ELSE Raise(o, "scrape_for_date")
  /\ UNCHANGED << mainVars, attempts, histVars >>

\* maybe_pick_quick_link, one link text per step: count() is outside the try,
\* the click and the load-state wait are inside it
QuickLink ==
  /\ spc = "quick_link"
  /\ \/ \E o \in OpFail : Raise(o, "maybe_pick_quick_link")
     \/ \* no such link: next text, or return False
        /\ Go(IF idx < Len(QUICK_LINKS) THEN "quick_link" ELSE "register",
              IF idx < Len(QUICK_LINKS) THEN idx + 1 ELSE 0, "no")
        /\ UNCHANGED localVars
     \/ \* clicked and settled: return True
        Go("register", 0, "no") /\ UNCHANGED localVars
     \/ \* the click or the wait raised: "except Exception: pass"
        \E k \in OpFail :
          /\ Go(IF idx < Len(QUICK_LINKS) THEN "quick_link" ELSE "register",
                IF idx < Len(QUICK_LINKS) THEN idx + 1 ELSE 0, k)
          /\ UNCHANGED localVars
  /\ UNCHANGED << mainVars, attempts, histVars >>

\* variant of the buffer: one list for the whole run, not emptied
RegisterSharedBuffer ==
  /\ spc = "register"
  /\ Go("normalize", 0, "no")
  /\ UNCHANGED << json_payloads, bufferedAt >>
  /\ registered' = TRUE
  /\ missed' = FALSE
  /\ UNCHANGED << mainVars, attempts, outcomes, browserUsed, pagSeen, dispatched,
                  extracts, bufStale, date_val, ok, clicked, rows, dom_rows, last_page >>

\* json_payloads = []; context.on("response", handle_response)
Register ==
  /\ spc = "register"
  /\ Go("normalize", 0, "no")
  /\ json_payloads' = <<>>
  /\ bufferedAt' = <<>>
  /\ registered' = TRUE
  /\ missed' = FALSE
  /\ UNCHANGED << mainVars, attempts, outcomes, browserUsed, pagSeen, dispatched,
                  extracts, bufStale, date_val, ok, clicked, rows, dom_rows, last_page >>

\* variant of the observer: subscribed as soon as the context exists
ResponseArrivesAlwaysObserved ==
  /\ spc \in {"load_wait", "quick_link", "register", "normalize", "fill_date", "direct_fill",
              "click_search", "press_enter", "settle", "paginate", "extract",
              "json_fallback", "close"}
  /\ Len(json_payloads) < MaxPayloads
  /\ \E resp \in Responses :
       /\ json_payloads' = handle_response(json_payloads, resp)
       /\ bufferedAt' = IF Len(json_payloads') > Len(json_payloads)
                           THEN Append(bufferedAt, << di, attempts >>) ELSE bufferedAt
       /\ bufStale' = (bufStale /\ Len(json_payloads') = Len(json_payloads))
  /\ UNCHANGED << mainVars, attempts, outcomes, browserUsed, pagSeen, dispatched,
                  extracts, missed, spc, idx, swallowed, exc, excAt, registered, date_val,
                  ok, clicked, rows, dom_rows, last_page >>

\* a response of the site arrives while the page is open, from the
\* navigation (line 286) to context.close() (line 364); handle_response
\* sees it only once context.on("response", ...) has run (line 303)
ResponseArrives ==
  /\ spc \in {"load_wait", "quick_link", "register", "normalize", "fill_date", "direct_fill",
              "click_search", "press_enter", "settle", "paginate", "extract",
              "json_fallback", "close"}
  /\ \E resp \in Responses :
       IF registered
         THEN /\ Len(json_payloads) < MaxPayloads
              /\ json_payloads' = handle_response(json_payloads, resp)
              /\ bufferedAt' = IF Len(json_payloads') > Len(json_payloads)
                                  THEN Append(bufferedAt, << di, attempts >>) ELSE bufferedAt
              /\ bufStale' = (bufStale /\ Len(json_payloads') = Len(json_payloads))
              /\ UNCHANGED missed
         ELSE /\ handle_response(<<>>, resp) # <<>>
              /\ missed' = TRUE
              /\ UNCHANGED << json_payloads, bufferedAt, bufStale >>
  /\ UNCHANGED << mainVars, attempts, outcomes, browserUsed, pagSeen, dispatched,
                  extracts, spc, idx, swallowed, exc, excAt, registered, date_val, ok,
                  clicked, rows, dom_rows, last_page >>

\* date_val = normalize_date(date_str)
Normalize ==
  /\ spc = "normalize"
  /\ IF normalize_date(date_str).raised
       THEN Raise("ValueError", "normalize_date")
       ELSE /\ Go("fill_date", 1, "no")
            /\ date_val' = normalize_date(date_str).val
            /\ UNCHANGED << registered, json_payloads, bufferedAt, ok, clicked, rows,
                            dom_rows, last_page >>
  /\ UNCHANGED << mainVars, attempts, histVars >>

\* try_fill_date, one date-input candidate per step: locator and count() are
\* outside the try; the two evaluate calls and strptime are inside it
try_fill_date ==
  /\ spc = "fill_date"
  /\ \/ \E o \in OpFail : Raise(o, "try_fill_date")
     \/ \* count() == 0: next candidate, or return False
        /\ Go(IF idx < NumCandidates("date_inputs") THEN "fill_date" ELSE "direct_fill",
              IF idx < NumCandidates("date_inputs") THEN idx + 1 ELSE 0, "no")
        /\ UNCHANGED localVars
     \/ \* a match, and a call inside the try raises: continue
        \E k \in OpFail \cup {"ValueError"} :
          /\ k = "ValueError" => StrptimeIsoRaises(date_val)
          /\ Go(IF idx < NumCandidates("date_inputs") THEN "fill_date" ELSE "direct_fill",
                IF idx < NumCandidates("date_inputs") THEN idx + 1 ELSE 0,
                IF k \in OpFail THEN k ELSE "no")
          /\ UNCHANGED localVars
     \/ \* a match, both values set: return True
        /\ ~StrptimeIsoRaises(date_val)
        /\ Go("click_search", 1, "no")
        /\ ok' = TRUE
        /\ UNCHANGED << registered, json_payloads, bufferedAt, date_val, clicked, rows,
                        dom_rows, last_page >>
  /\ UNCHANGED << mainVars, attempts, histVars >>

\* "if not ok": fill the first one or two located date inputs directly;
\* listing the inputs is outside the try, the fills are inside it
DirectFill ==
  /\ spc = "direct_fill"
  /\ \/ \E o \in OpFail : Raise(o, "scrape_for_date")
     \/ \* no input located
        Go("click_search", 1, "no") /\ UNCHANGED localVars
     \/ \* the fills succeeded
        /\ Go("click_search", 1, "no")
        /\ ok' = TRUE
        /\ UNCHANGED << registered, json_payloads, bufferedAt, date_val, clicked, rows,
                        dom_rows, last_page >>
     \/ \* a fill raised: "except Exception: pass"
        \E k \in OpFail : Go("click_search", 1, k) /\ UNCHANGED localVars
  /\ UNCHANGED << mainVars, attempts, histVars >>

\* variant of the loop: no "return True" after a click, the buttons that
\* follow are tried as well
click_search_without_return ==
  /\ spc = "click_search"
  /\ \/ \E o \in OpFail : Raise(o, "click_search") /\ dispatched' = <<>>
     \/ /\ Go(IF idx < NumCandidates("search_buttons") THEN "click_search" ELSE "press_enter",
              IF idx < NumCandidates("search_buttons") THEN idx + 1 ELSE 1, "no")
        /\ UNCHANGED << localVars, dispatched >>
     \/ \E k \in OpFail :
          /\ Go(IF idx < NumCandidates("search_buttons") THEN "click_search" ELSE "press_enter",
                IF idx < NumCandidates("search_buttons") THEN idx + 1 ELSE 1, k)
          /\ UNCHANGED << localVars, dispatched >>
     \/ /\ Go(IF idx < NumCandidates("search_buttons") THEN "click_search" ELSE "press_enter",
              IF idx < NumCandidates("search_buttons") THEN idx + 1 ELSE 1, "no")
        /\ clicked' = TRUE
        /\ dispatched' = Append(dispatched, "click")
        /\ UNCHANGED << registered, json_payloads, bufferedAt, date_val, ok, rows, dom_rows,
                        last_page >>
  /\ UNCHANGED << mainVars, attempts, outcomes, browserUsed, pagSeen,
                  extracts, bufStale, missed >>

\* click_search, the loop over the search buttons, one candidate per step:
\* count() is outside the try, the click is inside it
click_search ==
  /\ spc = "click_search"
  /\ \/ \E o \in OpFail : Raise(o, "click_search") /\ dispatched' = <<>>
     \/ \* count() == 0: next candidate, or on to the Enter fallback
        /\ Go(IF idx < NumCandidates("search_buttons") THEN "click_search" ELSE "press_enter",
              IF idx < NumCandidates("search_buttons") THEN idx + 1 ELSE 1, "no")
        /\ UNCHANGED << localVars, dispatched >>
     \/ \* the click raised: continue
        \E k \in OpFail :
          /\ Go(IF idx < NumCandidates("search_buttons") THEN "click_search" ELSE "press_enter",
                IF idx < NumCandidates("search_buttons") THEN idx + 1 ELSE 1, k)
          /\ UNCHANGED << localVars, dispatched >>
     \/ \* clicked: return True
        /\ Go("settle", 0, "no")
        /\ clicked' = TRUE
        /\ dispatched' = Append(dispatched, "click")
        /\ UNCHANGED << registered, json_payloads, bufferedAt, date_val, ok, rows, dom_rows,
                        last_page >>
  /\ UNCHANGED << mainVars, attempts, outcomes, browserUsed, pagSeen,
                  extracts, bufStale, missed >>

\* click_search, "Fallback: press Enter on date field", one date-input
\* candidate per step: one try around the whole loop, so any exception
\* ends the loop and the function returns False
press_enter ==
  /\ spc = "press_enter"
  /\ \/ \* count() or press raised: "except Exception: pass", return False
        \E k \in OpFail : Go("settle", 0, k) /\ UNCHANGED << localVars, dispatched >>
     \/ \* count() == 0: next candidate, or return False
        /\ Go(IF idx < NumCandidates("date_inputs") THEN "press_enter" ELSE "settle",
              IF idx < NumCandidates("date_inputs") THEN idx + 1 ELSE 0, "no")
        /\ UNCHANGED << localVars, dispatched >>
     \/ \* Enter pressed on the first input located: return True
        /\ Go("settle", 0, "no")
        /\ clicked' = TRUE
        /\ dispatched' = Append(dispatched, "enter")
        /\ UNCHANGED << registered, json_payloads, bufferedAt, date_val, ok, rows, dom_rows,
                        last_page >>
  /\ UNCHANGED << mainVars, attempts, outcomes, browserUsed, pagSeen,
                  extracts, bufStale, missed >>

\* variant of the wait: an attempt whose search was not submitted is given up
SettleSubmittedOnly ==
  /\ spc = "settle"
  /\ IF clicked THEN Go("paginate", 1, "no") /\ UNCHANGED localVars
                ELSE Raise("Error", "scrape_for_date")
  /\ dispatched' = <<>>
  /\ UNCHANGED << mainVars, attempts, outcomes, browserUsed, pagSeen,
                  extracts, bufStale, missed >>

\* "if not clicked: page.wait_for_timeout(1000)"; page.wait_for_timeout(1500)
Settle ==
  /\ spc = "settle"
  /\ Go("paginate", 1, "no")
  /\ dispatched' = <<>>
  /\ UNCHANGED << mainVars, attempts, outcomes, browserUsed, pagSeen, localVars,
                  extracts, bufStale, missed >>

\* what paginate has seen once it has dealt with a candidate: whether a
\* candidate of this round was present and enabled, the state of this one,
\* what became of the click, and the clicks that succeeded in this round
Seen(st, ck) ==
  LET before == IF idx = 1 THEN NoSeen ELSE pagSeen
  IN [ready |-> before.ready \/ st = "enabled",
      state |-> st,
      click |-> ck,
      done  |-> IF ck = "ok" /\ before.done < 2 THEN before.done + 1 ELSE before.done]

\* variant of the loop: the records of the page are collected after every
\* click as well
paginate_collecting ==
  /\ spc = "paginate"
  /\ \/ \E o \in OpFail :
          /\ Raise(o, "paginate") /\ pagSeen' = NoSeen /\ bufStale' = FALSE
          /\ UNCHANGED extracts
     \/ /\ Go(IF idx < NumCandidates("next_buttons") THEN "paginate" ELSE "extract",
              IF idx < NumCandidates("next_buttons") THEN idx + 1 ELSE 0, "no")
        /\ pagSeen' = Seen("unavailable", "none")
        /\ UNCHANGED << localVars, bufStale, extracts >>
     \/ \E k \in OpFail :
          /\ Go(IF idx < NumCandidates("next_buttons") THEN "paginate" ELSE "extract",
                IF idx < NumCandidates("next_buttons") THEN idx + 1 ELSE 0, k)
          /\ pagSeen' = Seen("enabled", "failed")
          /\ UNCHANGED << localVars, bufStale, extracts >>
     \/ \E page \in Pages :
          /\ try_extract_rows(page).raised = "no"
          /\ Go("paginate", 1, "no")
          /\ pagSeen' = Seen("enabled", "ok")
          /\ bufStale' = (json_payloads # <<>>)
          /\ rows' = try_extract_rows(page).rows
          /\ extracts' = (IF extracts < 2 THEN extracts + 1 ELSE extracts)
          /\ UNCHANGED << registered, json_payloads, bufferedAt, date_val, ok, clicked,
                          dom_rows, last_page >>
  /\ UNCHANGED << mainVars, attempts, outcomes, browserUsed, dispatched, missed >>

\* variant of the loop: no "break" after a click, the candidates that follow
\* are tried in the same round
paginate_without_break ==
  /\ spc = "paginate"
  /\ \/ \E o \in OpFail :
          Raise(o, "paginate") /\ pagSeen' = NoSeen /\ bufStale' = FALSE
     \/ /\ Go(IF idx < NumCandidates("next_buttons") \/ Seen("unavailable", "none").done > 0
                THEN "paginate" ELSE "extract",
              IF idx < NumCandidates("next_buttons") THEN idx + 1
              ELSE IF Seen("unavailable", "none").done > 0 THEN 1 ELSE 0, "no")
        /\ pagSeen' = Seen("unavailable", "none")
        /\ UNCHANGED << localVars, bufStale >>
     \/ \E k \in OpFail :
          /\ Go(IF idx < NumCandidates("next_buttons") \/ Seen("enabled", "failed").done > 0
                  THEN "paginate" ELSE "extract",
                IF idx < NumCandidates("next_buttons") THEN idx + 1
                ELSE IF Seen("enabled", "failed").done > 0 THEN 1 ELSE 0, k)
          /\ pagSeen' = Seen("enabled", "failed")
          /\ UNCHANGED << localVars, bufStale >>
     \/ /\ Go("paginate", IF idx < NumCandidates("next_buttons") THEN idx + 1 ELSE 1, "no")
        /\ pagSeen' = Seen("enabled", "ok")
        /\ bufStale' = (json_payloads # <<>>)
        /\ UNCHANGED localVars
  /\ UNCHANGED << mainVars, attempts, outcomes, browserUsed, dispatched, extracts, missed >>

\* paginate, one next-button candidate per step: count() and is_enabled() are
\* outside the try, the click is inside it; a click starts the candidates
\* over ("while True"), a pass without a click ends the function
paginate ==
  /\ spc = "paginate"
  /\ \/ \E o \in OpFail :
          Raise(o, "paginate") /\ pagSeen' = NoSeen /\ bufStale' = FALSE
     \/ \* count() == 0, or is_enabled() false (the candidate is unavailable):
        \* next candidate, or "if not clicked: break"
        /\ Go(IF idx < NumCandidates("next_buttons") THEN "paginate" ELSE "extract",
              IF idx < NumCandidates("next_buttons") THEN idx + 1 ELSE 0, "no")
        /\ pagSeen' = Seen("unavailable", "none")
        /\ UNCHANGED << localVars, bufStale >>
     \/ \* present and enabled, the click raised: continue
        \E k \in OpFail :
          /\ Go(IF idx < NumCandidates("next_buttons") THEN "paginate" ELSE "extract",
                IF idx < NumCandidates("next_buttons") THEN idx + 1 ELSE 0, k)
          /\ pagSeen' = Seen("enabled", "failed")
          /\ UNCHANGED << localVars, bufStale >>
     \/ \* present and enabled, clicked, waited 800 ms: clicked = True, break,
        \* next round
        /\ Go("paginate", 1, "no")
        /\ pagSeen' = Seen("enabled", "ok")
        /\ bufStale' = (json_payloads # <<>>)
        /\ UNCHANGED localVars
  /\ UNCHANGED << mainVars, attempts, outcomes, browserUsed, dispatched, extracts, missed >>

\* rows = try_extract_rows(page)
Extract ==
  /\ spc = "extract"
  /\ \E page \in Pages :
       LET r == try_extract_rows(page)
       IN IF r.raised # "no"
            THEN RaiseSeen(r.raised, "try_extract_rows", page)
            ELSE /\ Go("json_fallback", 0, "no")
                 /\ rows' = r.rows
                 /\ dom_rows' = r.rows
                 /\ last_page' = page
                 /\ UNCHANGED << registered, json_payloads, bufferedAt, date_val, ok, clicked >>
  /\ pagSeen' = NoSeen
  /\ extracts' = (IF extracts < 2 THEN extracts + 1 ELSE extracts)
  /\ bufStale' = (bufStale /\ spc' # "raising")
  /\ UNCHANGED << mainVars, attempts, outcomes, browserUsed, dispatched, missed >>

\* variant of the fallback: taken whenever a payload was buffered
json_fallback_any_payload ==
  /\ spc = "json_fallback"
  /\ IF json_payloads # <<>>
       THEN LET r == JsonFallback(json_payloads[Len(json_payloads)].data)
            IN IF r.raised # "no"
                 THEN Raise(r.raised, "scrape_for_date")
                 ELSE /\ Go("close", 0, "no")
                      /\ rows' = r.rows
                      /\ UNCHANGED << registered, json_payloads, bufferedAt, date_val, ok, clicked,
                                      dom_rows, last_page >>
       ELSE Go("close", 0, "no") /\ UNCHANGED localVars
  /\ bufStale' = FALSE
  /\ UNCHANGED << mainVars, attempts, outcomes, browserUsed, pagSeen, dispatched,
                  extracts, missed >>

\* variant of the fallback: the items of the first buffered payload are mapped
json_fallback_first_payload ==
  /\ spc = "json_fallback"
  /\ IF rows = <<>> /\ json_payloads # <<>>
       THEN LET r == JsonFallback(json_payloads[1].data)
            IN IF r.raised # "no"
                 THEN Raise(r.raised, "scrape_for_date")
                 ELSE /\ Go("close", 0, "no")
                      /\ rows' = r.rows
                      /\ UNCHANGED << registered, json_payloads, bufferedAt, date_val, ok, clicked,
                                      dom_rows, last_page >>
       ELSE Go("close", 0, "no") /\ UNCHANGED localVars
  /\ bufStale' = FALSE
  /\ UNCHANGED << mainVars, attempts, outcomes, browserUsed, pagSeen, dispatched,
                  extracts, missed >>

\* "if not rows and json_payloads": map the items of the last payload
json_fallback ==
  /\ spc = "json_fallback"
  /\ IF rows = <<>> /\ json_payloads # <<>>
       THEN LET r == JsonFallback(json_payloads[Len(json_payloads)].data)
            IN IF r.raised # "no"
                 THEN Raise(r.raised, "scrape_for_date")
                 ELSE /\ Go("close", 0, "no")
                      /\ rows' = r.rows
                      /\ UNCHANGED << registered, json_payloads, bufferedAt, date_val, ok, clicked,
                                      dom_rows, last_page >>
       ELSE Go("close", 0, "no") /\ UNCHANGED localVars
  /\ bufStale' = FALSE
  /\ UNCHANGED << mainVars, attempts, outcomes, browserUsed, pagSeen, dispatched,
                  extracts, missed >>

\* context.close(); browser.close(); deduplicate; return out
CloseAndReturn ==
  /\ spc = "close"
  /\ spc' = "returned"
  /\ rows' = Dedupe(rows)
  /\ outcomes' = Append(outcomes, "ok")
  /\ swallowed' = "no"
  /\ DropLocals
  /\ UNCHANGED << mainVars, attempts, dom_rows, last_page, exc, excAt, browserUsed, pagSeen, dispatched,
                  extracts, bufStale, missed >>

(***************************************************************************)
(* One attempt of scrape_for_date (sarasota_scraper_v2.py).  Every         *)
(* exception passes "except Exception as e: print_error; raise" and        *)
(* "finally: browser.close()" and leaves the function.                     *)
(***************************************************************************)
\* the text of an ISO date
DateText(d) == "2025-01-0" \o ToString(d.day)

V2Record(d, text) == [arrest_date |-> DateText(d), raw_text |-> text, scraped_at |-> "<now>"]

\* the rows 'table tr, .result-row, .inmate-row' can match: the text of each
\* row, "<raises>" when reading it raises
V2RowPool ==
  { <<>>,
    << "Name", "" >>,
    << "Name", "Doe, Jane 01/02/2025 DUI", "<raises>", "Smith, John 01/02/2025" >> }

\* the lines of the text of the frame's body
V2BodyPool ==
  { << "No results found for the selected date" >>,
    << "Booking" >>,
    << "Sarasota County Sheriff's Office arrest reports and inmate search for the public",
       "Doe, Jane 01/02/2025 DUI", "  ", "Page 1 of 1",
       "Smith, John 01/02/2025 Trespass" >>,
    << "Sarasota County Sheriff's Office arrest reports and inmate search for the public",
       "NO RESULTS", "Please change the date of the search and try again" >> }

\* "no results" in all_text.lower()
HasNoResults(body) ==
  \E i \in 1..Len(body) :
    body[i] \in {"No results found for the selected date", "NO RESULTS"}

\* len(all_text): the lines and the newlines between them
RECURSIVE TextLen(_, _)
TextLen(body, i) ==
  IF i > Len(body) THEN 0
  ELSE Len(body[i]) + (IF i < Len(body) THEN 1 ELSE 0) + TextLen(body, i + 1)

\* l.strip() on the lines the bodies use
StripLine(l) == IF l = "  " THEN "" ELSE l

\* the loop over the rows: "if text and len(text) > 10", a failing read is skipped
RECURSIVE V2Rows(_, _, _)
V2Rows(d, rs, i) ==
  IF i > Len(rs) THEN <<>>
  ELSE IF rs[i] # "<raises>" /\ rs[i] # "" /\ Len(rs[i]) > 10
         THEN << V2Record(d, rs[i]) >> \o V2Rows(d, rs, i + 1)
         ELSE V2Rows(d, rs, i + 1)

\* the loop over the lines of the body: "if len(line) > 20"
RECURSIVE V2Lines(_, _, _)
V2Lines(d, body, i) ==
  IF i > Len(body) THEN <<>>
  ELSE IF StripLine(body[i]) # "" /\ Len(StripLine(body[i])) > 20
         THEN << V2Record(d, StripLine(body[i])) >> \o V2Lines(d, body, i + 1)
         ELSE V2Lines(d, body, i + 1)

\* page.goto(ENTRY_URL, ..., timeout=60000); page.wait_for_timeout(3000)
V2Goto ==
  /\ spc = "v2_goto"
  /\ \E o \in Answers :
       IF o = "ok" THEN Go("v2_wait_iframe", 0, "no") /\ UNCHANGED localVars
                   ELSE Raise(o, "scrape_for_date")
  /\ UNCHANGED << mainVars, attempts, histVars >>

\* page.wait_for_selector('iframe', timeout=30000)
V2WaitIframe ==
  /\ spc = "v2_wait_iframe"
  /\ \E o \in Answers :
       IF o = "ok" THEN Go("v2_find_frame", 0, "no") /\ UNCHANGED localVars
                   ELSE Raise(o, "scrape_for_date")
  /\ UNCHANGED << mainVars, attempts, histVars >>

\* the search frame: the loop over page.frames skips a failing frame; the
\* alternate detection by src may raise; no frame raises Exception
V2FindFrame ==
  /\ spc = "v2_find_frame"
  /\ \/ Go("v2_date", 0, "no") /\ UNCHANGED localVars
     \/ \E k \in OpFail \cup {"Exception"} : Raise(k, "scrape_for_date")
  /\ UNCHANGED << mainVars, attempts, histVars >>

\* date_obj = datetime.strptime(date_str, "%Y-%m-%d"); formatted_date = MM/DD/YYYY
V2Date ==
  /\ spc = "v2_date"
  /\ IF StrptimeIsoRaises(date_str)
       THEN Raise("ValueError", "scrape_for_date")
       ELSE /\ Go("v2_fill", 0, "no")
            /\ date_val' = [shape |-> "mdy", day |-> date_str.day]
            /\ UNCHANGED << registered, json_payloads, bufferedAt, ok, clicked, rows,
                            dom_rows, last_page >>
  /\ UNCHANGED << mainVars, attempts, histVars >>

\* date_input.fill(formatted_date)
V2Fill ==
  /\ spc = "v2_fill"
  /\ \E o \in Answers :
       IF o = "ok" THEN Go("v2_click", 0, "no") /\ UNCHANGED localVars
                   ELSE Raise(o, "scrape_for_date")
  /\ UNCHANGED << mainVars, attempts, histVars >>

\* search_button.click(); page.wait_for_timeout(5000)
V2Click ==
  /\ spc = "v2_click"
  /\ \E o \in Answers :
       IF o = "ok" THEN Go("v2_rows", 0, "no") /\ UNCHANGED localVars
                   ELSE Raise(o, "scrape_for_date")
  /\ UNCHANGED << mainVars, attempts, histVars >>

\* the result rows of the frame
V2ExtractRows ==
  /\ spc = "v2_rows"
  /\ \/ \E o \in OpFail : Raise(o, "scrape_for_date")
     \/ \E rs \in V2RowPool :
          /\ Go(IF V2Rows(date_str, rs, 1) = <<>> THEN "v2_text" ELSE "v2_return", 0, "no")
          /\ rows' = V2Rows(date_str, rs, 1)
          /\ UNCHANGED << registered, json_payloads, bufferedAt, date_val, ok, clicked,
                          dom_rows, last_page >>
  /\ UNCHANGED << mainVars, attempts, histVars >>

\* "if not results": the lines of the body text
V2ExtractText ==
  /\ spc = "v2_text"
  /\ \/ \E o \in OpFail : Raise(o, "scrape_for_date")
     \/ \E body \in V2BodyPool :
          /\ Go("v2_return", 0, "no")
          /\ rows' = IF ~HasNoResults(body) /\ TextLen(body, 1) > 100
                       THEN V2Lines(date_str, body, 1) ELSE <<>>
          /\ UNCHANGED << registered, json_payloads, bufferedAt, date_val, ok, clicked,
                          dom_rows, last_page >>
  /\ UNCHANGED << mainVars, attempts, histVars >>

\* return results; finally: browser.close()
V2Return ==
  /\ spc = "v2_return"
  /\ spc' = "returned"
  /\ outcomes' = Append(outcomes, "ok")
  /\ swallowed' = "no"
  /\ DropLocals
  /\ UNCHANGED << mainVars, attempts, rows, dom_rows, last_page, exc, excAt, browserUsed,
                  pagSeen, dispatched,
                  extracts, bufStale, missed >>

Next ==
  \/ MainParse \/ MainCall \/ MainReceive \/ MainExcept \/ MainLoopDone
  \/ MainOutput \/ MainUpload
  \/ RetryAgain \/ Reraise
  \/ Launch \/ Goto \/ LoadWait \/ QuickLink \/ Register \/ ResponseArrives \/ Normalize
  \/ try_fill_date \/ DirectFill \/ click_search \/ press_enter \/ Settle \/ paginate
  \/ Extract \/ json_fallback \/ CloseAndReturn
  \/ V2Goto \/ V2WaitIframe \/ V2FindFrame \/ V2Date \/ V2Fill \/ V2Click
  \/ V2ExtractRows \/ V2ExtractText \/ V2Return

Spec == Init /\ [][Next]_vars

\* the program always takes its next step
FairSpec == Spec /\ WF_vars(Next)

(***************************************************************************)
(* Properties                                                              *)
(***************************************************************************)
TO == "PWTimeoutError"
Last(q) == q[Len(q)]

\* C1: a call of scrape_for_date whose first two attempts raise a timeout and
\* whose third attempt succeeds returns to the caller after exactly three
\* attempts, without an exception and without a fourth attempt; with the
\* attempt limit 3 of sarasota_scraper.py two timeouts are always followed by
\* a third attempt.
C1_ThirdAttemptResult ==
  /\ (Len(outcomes) >= 3 /\ outcomes[1] = TO /\ outcomes[2] = TO /\ outcomes[3] = "ok")
       => /\ Len(outcomes) = 3
          /\ attempts = 3
          /\ exc = "none"
          /\ spc \in {"returned", "idle"}
          /\ spc = "idle" => (Len(perDate) = di - 1 /\ ~Last(perDate).failed)
  /\ (variant = "v1" /\ outcomes = << TO, TO >>)
       => (attempts = 3 /\ spc \notin {"raised", "returned", "idle"})
C1_Witness ==
  /\ outcomes = << TO, TO, "ok" >>
  /\ spc = "returned"
  /\ rows # <<>>

\* C2: an attempt that raises an error that is not a timeout-class error is
\* not retried: the very next step of the retry wrapper hands that error to
\* the caller and no attempt is started.
C2_NonTimeoutNotRetried ==
  [][ (spc = "raising" /\ exc # TO)
        => (spc' = "raised" /\ exc' = exc /\ attempts' = attempts) ]_vars
C2_Witness ==
  /\ spc = "raised"
  /\ exc = "Error"
  /\ attempts = 2
  /\ outcomes = << TO, "Error" >>

\* the records of the dates that did not fail, in order
RECURSIVE ConcatOk(_, _)
ConcatOk(pd, i) ==
  IF i > Len(pd) THEN <<>>
  ELSE (IF pd[i].failed THEN <<>> ELSE pd[i].recs) \o ConcatOk(pd, i + 1)

\* C3: in sarasota_scraper.py a failing date never ends the loop over the
\* dates: when the loop is over, scrape_for_date has been called for every
\* date, and at every moment the aggregate is exactly the records of the
\* dates that did not fail.
C3_FailuresIsolated ==
  variant = "v1" =>
    /\ all_records = ConcatOk(perDate, 1)
    /\ mpc = "loop" => Len(perDate) = di - 1
    /\ mpc = "total" => Len(perDate) = Len(dates)
C3_Witness ==
  /\ variant = "v1"
  /\ mpc = "total"
  /\ Len(dates) = 3
  /\ ~perDate[1].failed /\ perDate[1].recs # <<>>
  /\ perDate[2].failed /\ perDate[2].error = "Error"
  /\ ~perDate[3].failed /\ perDate[3].recs # <<>>
  /\ all_records = perDate[1].recs \o perDate[3].recs

\* C4: the pagination phase of an attempt always ends: whenever paginate is
\* running, the attempt eventually leaves it.
C4_PaginationEnds == [](spc = "paginate" => <>(spc # "paginate"))

\* the positions of the input whose key appears there for the first time
FirstOccurrences(in) ==
  {j \in 1..Len(in) :
     \A i \in 1..(j - 1) :
       << in[i].name, in[i].arrest_date, in[i].booking_number, in[i].charges >>
         # << in[j].name, in[j].arrest_date, in[j].booking_number, in[j].charges >>}
\* out is the records of in at the first occurrences of the keys, in order
IsStableDedup(in, out) ==
  /\ Len(out) = Cardinality(FirstOccurrences(in))
  /\ \A j \in FirstOccurrences(in) :
       out[Cardinality({k \in FirstOccurrences(in) : k <= j})] = in[j]

\* C5: the deduplication at the end of an attempt keeps, in input order,
\* exactly the first record of every key (name, arrest_date, booking_number,
\* charges), whole: no two kept records share a key and the bond of a kept
\* record is that of the first record with its key.
C5_DedupFirstWins ==
  [][ (spc = "close" /\ spc' = "returned") => IsStableDedup(rows, rows') ]_vars
C5_Witness ==
  /\ spc = "returned"
  /\ Len(dom_rows) = 3
  /\ Len(rows) = 2
  /\ dom_rows[1].name = dom_rows[2].name
  /\ dom_rows[1].bond = "$500" /\ dom_rows[2].bond = "$900"
  /\ rows[1].bond = "$500"
  /\ rows[2] = dom_rows[3]

\* C6: when try_extract_rows returned at least one record, the rows of the
\* attempt are those records whatever was buffered, and the value returned is
\* their deduplication.
C6_DomRowsWin ==
  (variant = "v1" /\ dom_rows # <<>>)
    => /\ spc = "close" => rows = dom_rows
       /\ spc = "returned" => IsStableDedup(dom_rows, rows)
C6_Witness ==
  /\ spc = "close"
  /\ dom_rows # <<>>
  /\ json_payloads # <<>>
  /\ JsonFallback(Last(json_payloads).data).raised = "no"
  /\ JsonFallback(Last(json_payloads).data).rows # <<>>
  /\ rows = dom_rows

\* C7: the extraction chain never lets an exception escape because of the
\* shape of the content: no TypeError or AttributeError leaves an attempt.
C7_ExtractionNeverRaises ==
  ~(spc \in {"raising", "raised"} /\ exc \in {"AttributeError", "TypeError"})

\* C8: a date in neither accepted format fails before any browser is launched
\* and on the first attempt: when the ValueError of the date is in flight, the
\* call has launched no browser and made one attempt.
C8_InvalidDateFailsFast ==
  (spc \in {"raising", "raised"} /\ exc = "ValueError")
    => (~browserUsed /\ attempts = 1)

\* C9 (as stated): a timeout-class error raised by any step of an attempt
\* aborts the attempt: none is caught by the step.
C9_EveryTimeoutAborts == swallowed = TO => spc = "raising"

\* C9 (amended): a timeout-class error that leaves a step aborts the attempt
\* and the retry wrapper starts a new attempt when attempts remain, else hands
\* it to the caller; a timeout-class error raised by a quick-link click, a
\* date fill, a search-button click, the Enter press or a pagination click is
\* caught and the attempt goes on with its next candidate or step.
C9_EscapingTimeoutAborts ==
  /\ [][ (spc = "raising" /\ exc = TO)
           => IF attempts < StopAfterAttempt
                THEN spc' = "start" /\ attempts' = attempts + 1 /\ exc' = "none"
                ELSE spc' = "raised" /\ attempts' = attempts /\ exc' = TO ]_vars
  /\ [](spc = "raising" => (rows = <<>> /\ ~registered))
  /\ [](swallowed = TO
          => spc \in {"quick_link", "register", "fill_date", "direct_fill", "click_search",
                      "press_enter", "settle", "paginate", "extract"})
C9_Witness ==
  /\ spc = "start"
  /\ attempts = 2
  /\ outcomes = << TO >>
  /\ excAt = "none"

\* C10: try_fill_date and click_search never let an exception escape: no
\* exception in flight comes out of either.
C10_ControlsNeverRaise ==
  ~(spc \in {"raising", "raised"} /\ excAt \in {"try_fill_date", "click_search"})

\* C11: the sink upload is attempted only when the loop over the dates is
\* over and, if an output file was requested, the file holds the aggregate;
\* the upload step, failing or not, changes neither the aggregate nor the file.
C11_PersistBeforeUpload ==
  /\ []((mpc = "upload" \/ sheet.touched \/ mainExc = "SinkError")
          => /\ di > Len(dates)
             /\ Len(perDate) = Len(dates)
             /\ opts.output => file = [written |-> TRUE, data |-> all_records])
  /\ [][mpc = "upload" => (all_records' = all_records /\ file' = file)]_vars
C11_Witness ==
  /\ mainExc = "SinkError"
  /\ all_records # <<>>
  /\ opts.output
  /\ file = [written |-> TRUE, data |-> all_records]

\* C12: a failing sink upload never ends the run through an unhandled
\* exception: main handles the failure.
C12_SinkFailureHandled == mainExc = "SinkError" => mpc # "crashed"

\* the place in the aggregate before the records of the i-th call
RECURSIVE Offset(_, _)
Offset(pd, i) ==
  IF i <= 1 THEN 0
  ELSE Offset(pd, i - 1) + (IF pd[i - 1].failed THEN 0 ELSE Len(pd[i - 1].recs))

\* C13: the dates are called in ascending order, the records a call of
\* sarasota_scraper.py returned hold no key twice, and the aggregate is the
\* records each successful call returned, the calls in the order of the dates
\* and the records of a call in the order it returned them, with nothing
\* between, before or after them.
C13_AggregateOrdered ==
  /\ \A i, j \in 1..Len(dates) : i < j => dates[i].day < dates[j].day
  /\ \A i \in 1..Len(perDate) :
       /\ perDate[i].date = dates[i]
       /\ variant = "v1" =>
            \A k, l \in 1..Len(perDate[i].recs) :
              k < l => Key(perDate[i].recs[k]) # Key(perDate[i].recs[l])
       /\ ~perDate[i].failed =>
            \A k \in 1..Len(perDate[i].recs) :
              /\ Offset(perDate, i) + k <= Len(all_records)
              /\ all_records[Offset(perDate, i) + k] = perDate[i].recs[k]
  /\ Len(all_records) = Offset(perDate, Len(perDate) + 1)
C13_Witness ==
  /\ mpc = "total"
  /\ Len(perDate) >= 2
  /\ ~perDate[1].failed /\ Len(perDate[1].recs) = 1
  /\ ~perDate[2].failed /\ Len(perDate[2].recs) = 2
  /\ perDate[1].recs[1] # perDate[2].recs[1]
  /\ all_records = perDate[1].recs \o perDate[2].recs \o
                     (IF Len(perDate) = 3 /\ ~perDate[3].failed THEN perDate[3].recs ELSE <<>>)

\* the positions of an attempt of sarasota_scraper.py at which the buffer exists
BufferLive == {"normalize", "fill_date", "direct_fill", "click_search", "press_enter",
               "settle", "paginate", "extract", "json_fallback", "close"}

\* C14: the buffer of an attempt starts empty, and while the attempt runs it
\* holds only payloads buffered during this attempt of this date; the rows
\* the JSON fallback produces come from the last of these; after the attempt
\* nothing is buffered.
C14_BufferPerAttempt ==
  /\ [](spc \in BufferLive
          => /\ Len(bufferedAt) = Len(json_payloads)
             /\ \A i \in 1..Len(bufferedAt) : bufferedAt[i] = << di, attempts >>)
  /\ [][(spc = "register" /\ spc' # spc) => json_payloads' = <<>>]_vars
  /\ [][(spc = "json_fallback" /\ spc' = "close" /\ rows' # rows)
          => /\ Last(bufferedAt) = << di, attempts >>
             /\ rows' = JsonFallback(Last(json_payloads).data).rows]_vars
  /\ [][spc \notin BufferLive => json_payloads' = json_payloads \/ spc = "register"]_vars
C14_Witness ==
  /\ spc = "close"
  /\ attempts = 2
  /\ di = 2
  /\ dom_rows = <<>>
  /\ rows # <<>>
  /\ bufferedAt = << << 2, 2 >> >>
  /\ perDate[1].recs # <<>>

\* every attempt of the current call ended with a timeout, n attempts in all
AllTimedOut(n) == Len(outcomes) = n /\ \A i \in 1..n : outcomes[i] = TO

\* C15: a call never makes more attempts than the limit, 3 in
\* sarasota_scraper.py; when every attempt up to the limit timed out, the
\* timeout is with the caller and no attempt runs; main then records the
\* date as failed and adds no record to the aggregate.
C15_RetriesBounded ==
  /\ [](attempts <= StopAfterAttempt /\ Len(outcomes) <= StopAfterAttempt)
  /\ [](variant = "v1" => attempts <= 3)
  /\ [](AllTimedOut(StopAfterAttempt)
          => /\ attempts = StopAfterAttempt
             /\ \/ spc = "raised" /\ exc = TO
                \/ spc = "idle" /\ Last(perDate).failed /\ Last(perDate).error = TO)
  /\ [][(spc = "raised" /\ AllTimedOut(StopAfterAttempt))
          => /\ spc' = "idle"
             /\ all_records' = all_records
             /\ Last(perDate').recs = <<>>]_vars
C15_Witness ==
  /\ variant = "v1"
  /\ spc = "idle"
  /\ attempts = 3
  /\ outcomes = << TO, TO, TO >>
  /\ Last(perDate).error = TO
  /\ mpc = "done"

\* C16: a run given a start date after the end date is rejected: main never
\* gets past its argument handling with the empty list of dates.
C16_EmptyRangeRejected ==
  (/\ variant = "v1"
   /\ args.date = NoArg
   /\ args.start \in IsoDays /\ args.end \in IsoDays
   /\ args.start.day > args.end.day)
    => mpc \in {"parse", "usage_error", "crashed"}

\* the elements of a page in the order of the candidates and, within a
\* candidate, of the document
RECURSIVE Elements(_, _)
Elements(page, ci) ==
  IF ci > Len(page.cands) THEN <<>> ELSE page.cands[ci].els \o Elements(page, ci + 1)

\* the element can be inspected and has a body row (a table) or an item
Yields(el) ==
  /\ el.raises = "no"
  /\ IF el.is_table THEN Len(el.body) > 0 ELSE Len(el.items) > 0

\* the place of the first such element of the page, 0 when there is none
FirstYielding(page) ==
  LET es == Elements(page, 1)
      hits == {i \in 1..Len(es) : Yields(es[i])}
  IN IF hits = {} THEN 0 ELSE CHOOSE i \in hits : \A j \in hits : i <= j

\* try_extract_rows has returned the records of a container of items
CardsExtracted ==
  /\ spc \in {"json_fallback", "close"}
  /\ FirstYielding(last_page) # 0
  /\ ~Elements(last_page, 1)[FirstYielding(last_page)].is_table

\* the labels a field is read from, and the value of the first line of an
\* item text that carries one of them, Null when no line does
AcceptedLabels(field) ==
  CASE field = "name"           -> {"name"}
    [] field = "age"            -> {"age"}
    [] field = "booking_number" -> {"booking no", "booking no.", "booking #", "booking number"}
LabelledValue(text, field) ==
  LET hits == {i \in 1..Len(text) : Lower(text[i].label) \in AcceptedLabels(field)}
  IN IF hits = {} THEN Null ELSE text[CHOOSE i \in hits : \A j \in hits : i <= j].value

\* C17: the records of a container of items are one per item, and name, age
\* and booking_number of each are the value of the line of the item text that
\* carries an accepted label of the field, null when no line does; so the
\* item "Name: John Smith", "Age: 34", "Booking No: A987" gives name
\* "John Smith", age "34" and booking_number "A987".
C17_CardFields ==
  CardsExtracted =>
    LET items == Elements(last_page, 1)[FirstYielding(last_page)].items
    IN /\ Len(dom_rows) = Len(items)
       /\ \A i \in 1..Len(items) :
            /\ \A f \in {"name", "age", "booking_number"} :
                 dom_rows[i][f] = LabelledValue(items[i], f)
            /\ items[i] = JohnText =>
                 /\ dom_rows[i].name = "John Smith"
                 /\ dom_rows[i].age = "34"
                 /\ dom_rows[i].booking_number = "A987"

\* try_extract_rows has returned the records of a table with body rows
TableExtracted ==
  /\ spc \in {"json_fallback", "close"}
  /\ FirstYielding(last_page) # 0
  /\ Elements(last_page, 1)[FirstYielding(last_page)].is_table
ExtractedTable == Elements(last_page, 1)[FirstYielding(last_page)]

\* the header labels of each field a table is read for, in the order they
\* are looked up
Synonyms(field) ==
  CASE field = "arrest_date"    -> << "arrest date", "date" >>
    [] field = "name"           -> << "name" >>
    [] field = "dob"            -> << "dob", "date of birth" >>
    [] field = "age"            -> << "age" >>
    [] field = "charges"        -> << "charges", "charge" >>
    [] field = "agency"         -> << "agency", "arresting agency" >>
    [] field = "booking_number" -> << "booking #", "booking number" >>
    [] field = "bond"           -> << "bond" >>
    [] OTHER                    -> << >>
TableFields ==
  {"arrest_date", "name", "dob", "age", "charges", "agency", "booking_number", "bond"}
RecordFields == TableFields \cup {"arrest_time", "source_url"}

\* the trimmed cell of the row in the column whose header is the label, Null
\* when there is no such column or the row has no cell in it
CellUnder(headers, cells, label) ==
  LET cols == {i \in 1..Len(headers) :
                 i <= Len(cells) /\ Lower(Strip(headers[i])) = label}
  IN IF cols = {} THEN Null ELSE Strip(cells[SetMax(cols)])

\* the cell under the first synonym of the field
FirstSynonymCell(headers, cells, field) ==
  LET hits == {k \in 1..Len(Synonyms(field)) :
                 CellUnder(headers, cells, Synonyms(field)[k]) # Null}
  IN IF hits = {} THEN Null
     ELSE CellUnder(headers, cells, Synonyms(field)[CHOOSE k \in hits : \A j \in hits : k <= j])

\* the cell under the first synonym of the field that has a non-empty cell;
\* a field with one label takes its cell as it is
ExpectedCell(headers, cells, field) ==
  LET syn == Synonyms(field)
  IN IF Len(syn) = 1 THEN CellUnder(headers, cells, syn[1])
     ELSE IF CellUnder(headers, cells, syn[1]) \notin {Null, ""}
            THEN CellUnder(headers, cells, syn[1])
            ELSE CellUnder(headers, cells, syn[2])

Stage(p) ==
  CASE p = "start" -> 1 [] p = "goto" -> 2 [] p = "load_wait" -> 3 [] p = "quick_link" -> 4
    [] p = "register" -> 5 [] p = "normalize" -> 6 [] p = "fill_date" -> 7
    [] p = "direct_fill" -> 8 [] p = "click_search" -> 9 [] p = "press_enter" -> 10
    [] p = "settle" -> 11 [] p = "paginate" -> 12 [] p = "extract" -> 13
    [] p = "json_fallback" -> 14 [] p = "close" -> 15 [] p = "returned" -> 16
    [] OTHER -> 0
EveryAttempt == {"goto", "load_wait", "quick_link", "register", "normalize", "fill_date",
                 "click_search", "settle", "paginate", "extract", "json_fallback", "close",
                 "returned"}

\* C19: a step of an attempt of sarasota_scraper.py either fails or goes on
\* to a later position without passing over navigation, date fill, search
\* submission, the wait, pagination, extraction or deduplication; the date
\* fill and its direct-fill fallback, filled or not, go on to the search
\* submission, the search submission, dispatched or not, to the wait, and the
\* wait always to pagination, which when it ends goes on to extraction.
C19_StepsInOrder ==
  /\ [][(variant = "v1" /\ Stage(spc) > 0 /\ spc' # spc /\ spc' # "raising"
           /\ spc # "returned")
          => /\ Stage(spc') > Stage(spc)
             /\ \A p \in EveryAttempt : ~(Stage(spc) < Stage(p) /\ Stage(p) < Stage(spc'))]_vars
  /\ [][(spc = "fill_date" /\ spc' \notin {"fill_date", "raising"})
          => (IF ok' THEN spc' = "click_search" ELSE spc' = "direct_fill")]_vars
  /\ [][(spc = "direct_fill" /\ spc' \notin {"direct_fill", "raising"})
          => spc' = "click_search"]_vars
  /\ [][(spc = "click_search" /\ spc' \notin {"click_search", "raising"})
          => (IF clicked' THEN spc' = "settle" ELSE spc' = "press_enter")]_vars
  /\ [][spc = "press_enter" => spc' \in {"press_enter", "settle"}]_vars
  /\ [][(spc = "settle" /\ spc' # "settle") => spc' = "paginate"]_vars
  /\ [][(spc = "paginate" /\ spc' \notin {"paginate", "raising"}) => spc' = "extract"]_vars
C19_Witness ==
  /\ spc = "close"
  /\ ~ok
  /\ ~clicked
  /\ rows # <<>>

\* the candidates of a page with an element that yields, the first of them,
\* and its first element that yields
YieldingCands(page) ==
  {ci \in 1..Len(page.cands) :
     \E ei \in 1..Len(page.cands[ci].els) : Yields(page.cands[ci].els[ei])}
WinnerCand(page) == CHOOSE ci \in YieldingCands(page) : \A cj \in YieldingCands(page) : ci <= cj
WinnerIndex(page) ==
  LET els == page.cands[WinnerCand(page)].els
      hits == {ei \in 1..Len(els) : Yields(els[ei])}
  IN CHOOSE ei \in hits : \A ej \in hits : ei <= ej
Winner(page) == page.cands[WinnerCand(page)].els[WinnerIndex(page)]

\* an element yields and the matches of every candidate up to its own can be counted
HasWinner(page) ==
  /\ YieldingCands(page) # {}
  /\ \A ci \in 1..WinnerCand(page) : page.cands[ci].count_raises = "no"

\* C20: when an element of the page can be inspected and has a body row (a
\* table) or an item (a container of items), try_extract_rows returns the
\* records of the first such element in the order of the candidates and,
\* within a candidate, of the document: the table strategy's for a table,
\* the card strategy's otherwise; elements before it that yield nothing or
\* cannot be inspected change nothing, and nothing after it does, not even
\* a later candidate whose lookup would raise.
C20_FirstSuccessWins ==
  /\ (spc = "raising" /\ excAt = "try_extract_rows") => ~HasWinner(last_page)
  /\ (spc \in {"json_fallback", "close"} /\ HasWinner(last_page))
       => /\ dom_rows # <<>>
          /\ dom_rows = (IF Winner(last_page).is_table
                            THEN extract_rows_from_table(Winner(last_page))
                            ELSE extract_rows_from_cards(Winner(last_page)))
C20_Witness ==
  /\ spc = "json_fallback"
  /\ HasWinner(last_page)
  /\ WinnerCand(last_page) = 1
  /\ WinnerIndex(last_page) = 2
  /\ last_page.cands[1].els[1].raises = "Error"
  /\ last_page.cands[2].count_raises = "Error"
  /\ last_page.last_count_raises = "PWTimeoutError"
  /\ dom_rows = extract_rows_from_table(last_page.cands[1].els[2])

\* try_extract_rows was called on a page none of whose candidates has an
\* element that yields, and every lookup of the call is answered: the counts
\* of the candidates and of the tables, and the text of the first table
ScanFindsNothing ==
  /\ last_page # NoPage
  /\ YieldingCands(last_page) = {}
  /\ \A ci \in 1..Len(last_page.cands) : last_page.cands[ci].count_raises = "no"
  /\ last_page.last_count_raises = "no"
  /\ last_page.cands[1].els # <<>> => ~ReadRaises(last_page.cands[1].els[1])

\* C21: when no element of a candidate yields, try_extract_rows returns what
\* the table strategy reads from the first table of the page, body rows or
\* not, and the empty list when the page has no table.
C21_LastResortTable ==
  ScanFindsNothing =>
    /\ spc \in {"json_fallback", "close", "returned"}
    /\ dom_rows = (IF last_page.cands[1].els # <<>>
                     THEN extract_rows_from_table(last_page.cands[1].els[1])
                     ELSE <<>>)
C21_Witness ==
  /\ ScanFindsNothing
  /\ spc = "json_fallback"
  /\ last_page.cands[1].els # <<>>
  /\ last_page.cands[1].els[1].raises = "eval"
  /\ Len(dom_rows) = 1
  /\ dom_rows[1].name = "Jane Doe"

C23_ReturnsWhenNoneReady ==
  [][(spc = "paginate" /\ spc' = "extract") => ~pagSeen'.ready]_vars

\* C23, amended: in each round of paginate the candidates are tried in rank
\* order; only a candidate that is present and enabled is clicked; a click
\* that succeeds ends the round, so at most one succeeds per round, on the
\* first candidate that is present and enabled and whose click does not fail;
\* paginate returns in the first round in which no click succeeds (no
\* candidate is present and enabled, or every click on one fails), after the
\* last candidate, having clicked nothing successfully in that round
C23_Paginate ==
  /\ [](pagSeen.click # "none" => pagSeen.state = "enabled")
  /\ [](pagSeen.done <= 1)
  /\ [][(/\ spc = "paginate"
          /\ spc' \in {"paginate", "extract"}
          /\ (idx' # idx \/ spc' # spc \/ pagSeen' # pagSeen))
          => IF pagSeen'.click = "ok"
               THEN spc' = "paginate" /\ idx' = 1 /\ pagSeen'.done = 1
               ELSE /\ pagSeen'.done = 0
                    /\ IF idx < NumCandidates("next_buttons")
                         THEN spc' = "paginate" /\ idx' = idx + 1
                         ELSE spc' = "extract"]_vars
  /\ [][(spc = "paginate" /\ spc' # spc)
          => \/ spc' = "raising"
             \/ /\ spc' = "extract"
                /\ idx = NumCandidates("next_buttons")
                /\ pagSeen'.click # "ok"
                /\ pagSeen'.done = 0]_vars

\* paginate has returned from a round in which a candidate was present and
\* enabled and its click failed, and the last one was absent or disabled
C23_Witness ==
  /\ spc = "extract"
  /\ pagSeen.ready
  /\ pagSeen.state = "unavailable"
  /\ pagSeen.done = 0

\* C24: a call of click_search sends at most one successful action; the
\* search buttons are tried in rank order and the first click that succeeds
\* ends the call with True; Enter is pressed, on the first date input
\* located, only when no button click succeeded; the call returns True
\* exactly when an action was sent
C24_OneDispatch ==
  /\ [](Len(dispatched) <= 1)
  /\ [](spc = "press_enter" => dispatched = <<>> /\ ~clicked)
  /\ [](spc = "settle" => (clicked <=> dispatched # <<>>))
  /\ [][(spc = "click_search" /\ spc' \notin {spc, "raising"})
          => IF dispatched' # dispatched
               THEN spc' = "settle" /\ dispatched' = <<"click">>
               ELSE /\ spc' = "press_enter"
                    /\ idx = NumCandidates("search_buttons")]_vars
  /\ [][(spc = "click_search" /\ spc' = spc /\ idx' # idx)
          => idx' = idx + 1 /\ dispatched' = dispatched]_vars
  /\ [][(spc = "press_enter" /\ idx' # idx)
          => IF dispatched' # dispatched
               THEN spc' = "settle" /\ dispatched' = <<"enter">>
               ELSE \/ spc' = "settle"
                    \/ spc' = spc /\ idx' = idx + 1]_vars

\* no button click succeeded and Enter went to a date input: the call
\* returned True
C24_Witness ==
  /\ spc = "settle"
  /\ clicked
  /\ dispatched = <<"enter">>

\* C25 as stated, its clause on the result: the records of an attempt hold
\* nothing that was obtained before the final pagination click
C25_ResultFromFinalPage ==
  [][(spc = "json_fallback" /\ spc' = "close" /\ rows' # rows) => ~bufStale]_vars

\* the positions of an attempt before try_extract_rows has been called
BeforeExtract ==
  {"goto", "load_wait", "quick_link", "register", "normalize", "fill_date", "direct_fill",
   "click_search", "press_enter", "settle", "paginate", "extract"}

\* C25, amended: in an attempt try_extract_rows is called exactly once, and
\* only after paginate has returned; no records are collected before that,
\* so the records it yields are those of the page as it is after the final
\* pagination click; only when it yields none can the result hold other
\* records, those of the last buffered payload, which may have arrived
\* before the final click
C25_ExtractAfterPaginate ==
  /\ [](extracts <= 1)
  /\ []((variant = "v1" /\ spc \in BeforeExtract)
          => extracts = 0 /\ rows = <<>> /\ dom_rows = <<>>)
  /\ []((variant = "v1" /\ spc \in {"json_fallback", "close", "returned"})
          => /\ extracts = 1
             /\ try_extract_rows(last_page).raised = "no"
             /\ dom_rows = try_extract_rows(last_page).rows)
  /\ [][(spc' = "extract" /\ spc # "extract")
          => /\ spc = "paginate"
             /\ idx = NumCandidates("next_buttons")
             /\ pagSeen'.done = 0]_vars
  /\ [][(extracts' # extracts /\ extracts' # 0)
          => spc = "extract" /\ extracts' = extracts + 1]_vars
  /\ [][(spc = "extract" /\ spc' = "json_fallback") => rows' = dom_rows']_vars
  /\ [][(spc = "json_fallback" /\ spc' = "close" /\ rows' # rows) => dom_rows = <<>>]_vars

\* a payload was buffered, a pagination click followed, paginate returned
\* and the one call of try_extract_rows found records on the final page
C25_Witness ==
  /\ spc = "json_fallback"
  /\ bufStale
  /\ extracts = 1
  /\ dom_rows # <<>>
  /\ rows = dom_rows

\* C26 as stated, its last clause: a response is buffered only between the
\* registration of the observer and the check of the JSON fallback
C26_BufferedBeforeFallback ==
  [][Len(json_payloads') > Len(json_payloads) => spc \in BufferLive \ {"close"}]_vars

\* C26, amended: the observer is registered only once the navigation, the
\* load wait and the quick link are done, on an empty buffer; a matching
\* response that arrives before that is not buffered, so the fallback cannot
\* use it; a response is buffered only between the registration and the
\* closing of the context, and one buffered after the fallback's check does
\* not change the result
C26_ObserverAfterQuickLink ==
  /\ [](spc \in {"start", "goto", "load_wait", "quick_link", "register"} => ~registered)
  /\ [](missed => ~registered)
  /\ [][(registered' /\ ~registered)
          => /\ spc = "register"
             /\ spc' = "normalize"
             /\ json_payloads' = <<>>
             /\ bufferedAt' = <<>>]_vars
  /\ [][(spc' = "register" /\ spc # spc') => spc = "quick_link"]_vars
  /\ [][(missed' /\ ~missed) => json_payloads' = json_payloads /\ spc' = spc]_vars
  /\ [][Len(json_payloads') > Len(json_payloads) => registered /\ spc \in BufferLive]_vars
  /\ [][(Len(json_payloads') > Len(json_payloads) /\ spc = "close")
          => rows' = rows /\ spc' = spc]_vars

\* in the first attempt for the first date a matching response has arrived
\* during the quick-link handling, before the registration: nothing is
\* buffered
C26_Witness ==
  /\ spc = "register"
  /\ di = 1
  /\ attempts = 1
  /\ missed
  /\ json_payloads = <<>>

====
